---- MODULE Spec2Model ----
(***************************************************************************)
(* AVL tree of src/src/avl_tree.rs: the node primitives (height, rotation, *)
(* balance), the recursive insert / remove / find / traversal, and the     *)
(* public AVLTree handle, driven by arbitrary insert and remove calls.     *)
(*                                                                         *)
(* Option<Box<Node>> is a sequence of length 0 (None) or 1 (Some(node));   *)
(* a node is a record with the fields of struct Node.                      *)
(***************************************************************************)
EXTENDS Integers, Sequences, FiniteSets

\* ---- bounds of the model ----
MaxKey == 4
AscMaxKey == 20
LoadMaxKey == 8
MixMaxKey == 6
MaxMixRemoves == 2
MaxAscRemoves == 3

Keys == 1..MaxKey
\* V is an opaque payload: the tree stores and moves values and never inspects
\* them, so two distinct ones show every overwrite.
Values == {1, 2}
AscKeys == 1..AscMaxKey
MixKeys == 1..MixMaxKey

VARIABLES root, prev, op, ref, phase, loaded, panicked, hi, nRem

vars == <<root, prev, op, ref, phase, loaded, panicked, hi, nRem>>

\* ---- Option<Box<Node<K, V>>> ----
None == <<>>

Some(n) == <<n>>

Max(a, b) == IF a >= b THEN a ELSE b

\* The value an operator yields when the code panics (expect / unwrap on an
\* absent child); no stored node has height 0 or key 0.
PanicNode == [key |-> 0, value |-> 0, height |-> 0, left |-> None, right |-> None]

NewNode(k, v) == [key |-> k, value |-> v, height |-> 1, left |-> None, right |-> None]

height(t) == IF t = None THEN 0 ELSE t[1].height

update_height(n) == [n EXCEPT !.height = 1 + Max(height(n.left), height(n.right))]

balance_factor(n) == height(n.left) - height(n.right)

\* rotate_right with the promoted node's wrong child handed to the old root
rotate_right_wrongChild(n) ==
    IF n.left = None THEN PanicNode
    ELSE LET new_root == n.left[1]
             self == update_height([n EXCEPT !.left = new_root.left])
         IN  update_height([new_root EXCEPT !.left = new_root.right,
                                            !.right = Some(self)])

rotate_right(n) ==
    IF n.left = None THEN PanicNode
    ELSE LET new_root == n.left[1]
             self == update_height([n EXCEPT !.left = new_root.right])
         IN  update_height([new_root EXCEPT !.right = Some(self)])

\* rotate_left that hangs the old root on the promoted node's right
rotate_left_asRight(n) ==
    IF n.right = None THEN PanicNode
    ELSE LET new_root == n.right[1]
             self == update_height([n EXCEPT !.right = new_root.left])
         IN  update_height([new_root EXCEPT !.left = new_root.right,
                                            !.right = Some(self)])

\* rotate_left that does not recompute the demoted node's height
rotate_left_noUpdate(n) ==
    IF n.right = None THEN PanicNode
    ELSE LET new_root == n.right[1]
             self == [n EXCEPT !.right = new_root.left]
         IN  update_height([new_root EXCEPT !.left = Some(self)])

rotate_left(n) ==
    IF n.right = None THEN PanicNode
    ELSE LET new_root == n.right[1]
             self == update_height([n EXCEPT !.right = new_root.left])
         IN  update_height([new_root EXCEPT !.left = Some(self)])

\* balance that lets a right-heavy node stand until the difference exceeds 2
balance_lateRightHeavy(n) ==
    LET self == update_height(n)
        bal == balance_factor(self)
    IN  IF bal > 1
        THEN IF self.left = None THEN PanicNode
             ELSE IF balance_factor(self.left[1]) < 0
                  THEN LET l == rotate_left(self.left[1])
                       IN  IF l = PanicNode THEN PanicNode
                           ELSE rotate_right([self EXCEPT !.left = Some(l)])
                  ELSE rotate_right(self)
        ELSE IF bal < -2
        THEN IF self.right = None THEN PanicNode
             ELSE IF balance_factor(self.right[1]) > 0
                  THEN LET r == rotate_right(self.right[1])
                       IN  IF r = PanicNode THEN PanicNode
                           ELSE rotate_left([self EXCEPT !.right = Some(r)])
                  ELSE rotate_left(self)
        ELSE self

\* balance that turns a left-heavy node to the left
balance_wrongRotation(n) ==
    LET self == update_height(n)
        bal == balance_factor(self)
    IN  IF bal > 1
        THEN IF self.left = None THEN PanicNode
             ELSE IF balance_factor(self.left[1]) < 0
                  THEN LET l == rotate_left(self.left[1])
                       IN  IF l = PanicNode THEN PanicNode
                           ELSE rotate_left([self EXCEPT !.left = Some(l)])
                  ELSE rotate_left(self)
        ELSE IF bal < -1
        THEN IF self.right = None THEN PanicNode
             ELSE IF balance_factor(self.right[1]) > 0
                  THEN LET r == rotate_right(self.right[1])
                       IN  IF r = PanicNode THEN PanicNode
                           ELSE rotate_left([self EXCEPT !.right = Some(r)])
                  ELSE rotate_left(self)
        ELSE self

balance(n) ==
    LET self == update_height(n)
        bal == balance_factor(self)
    IN  IF bal > 1
        THEN IF self.left = None THEN PanicNode
             ELSE IF balance_factor(self.left[1]) < 0
                  THEN LET l == rotate_left(self.left[1])
                       IN  IF l = PanicNode THEN PanicNode
                           ELSE rotate_right([self EXCEPT !.left = Some(l)])
                  ELSE rotate_right(self)
        ELSE IF bal < -1
        THEN IF self.right = None THEN PanicNode
             ELSE IF balance_factor(self.right[1]) > 0
                  THEN LET r == rotate_right(self.right[1])
                       IN  IF r = PanicNode THEN PanicNode
                           ELSE rotate_left([self EXCEPT !.right = Some(r)])
                  ELSE rotate_left(self)
        ELSE self

RECURSIVE Node_insert(_, _, _)
\* Node::insert whose Ordering::Equal arm keeps the stored value
Node_insert_keepOld(n, k, v) ==
    IF k < n.key
    THEN IF n.left # None
         THEN LET l == Node_insert(n.left[1], k, v)
              IN  IF l = PanicNode THEN PanicNode
                  ELSE balance([n EXCEPT !.left = Some(l)])
         ELSE balance([n EXCEPT !.left = Some(NewNode(k, v))])
    ELSE IF k > n.key
    THEN IF n.right # None
         THEN LET r == Node_insert(n.right[1], k, v)
              IN  IF r = PanicNode THEN PanicNode
                  ELSE balance([n EXCEPT !.right = Some(r)])
         ELSE balance([n EXCEPT !.right = Some(NewNode(k, v))])
    ELSE balance(n)

Node_insert(n, k, v) ==
    IF k < n.key
    THEN IF n.left # None
         THEN LET l == Node_insert(n.left[1], k, v)
              IN  IF l = PanicNode THEN PanicNode
                  ELSE balance([n EXCEPT !.left = Some(l)])
         ELSE balance([n EXCEPT !.left = Some(NewNode(k, v))])
    ELSE IF k > n.key
    THEN IF n.right # None
         THEN LET r == Node_insert(n.right[1], k, v)
              IN  IF r = PanicNode THEN PanicNode
                  ELSE balance([n EXCEPT !.right = Some(r)])
         ELSE balance([n EXCEPT !.right = Some(NewNode(k, v))])
    ELSE balance([n EXCEPT !.value = v])

RECURSIVE find_min(_)
find_min(n) == IF n.left # None THEN find_min(n.left[1]) ELSE n

\* the two-child case copying the successor's key and children, not its value
remove_two_children_keepValue(n) ==
    LET min == find_min(n.right[1])
    IN  [n EXCEPT !.key = min.key, !.right = min.right, !.left = min.left]

\* The node the two-child case of Node::remove hands to balance: the fields
\* of the node find_min returned, written over self.
remove_two_children(n) ==
    LET min == find_min(n.right[1])
    IN  [n EXCEPT !.key = min.key, !.value = min.value,
                  !.right = min.right, !.left = min.left]

\* Node::remove yields Option<Box<Node>>; Some(PanicNode) stands for a panic.
RECURSIVE Node_remove(_, _)
\* Node::remove whose two-child case copies the successor's value and
\* children but not its key
Node_remove_keepKey(n, k) ==
    IF k < n.key
    THEN IF n.left # None
         THEN LET l == Node_remove(n.left[1], k)
              IN  IF l = Some(PanicNode) THEN Some(PanicNode)
                  ELSE Some(balance([n EXCEPT !.left = l]))
         ELSE Some(balance(n))
    ELSE IF k > n.key
    THEN IF n.right # None
         THEN LET r == Node_remove(n.right[1], k)
              IN  IF r = Some(PanicNode) THEN Some(PanicNode)
                  ELSE Some(balance([n EXCEPT !.right = r]))
         ELSE Some(balance(n))
    ELSE IF n.left = None THEN n.right
    ELSE IF n.right = None THEN n.left
    ELSE LET min == find_min(n.right[1])
         IN  Some(balance([n EXCEPT !.value = min.value,
                                    !.right = min.right, !.left = min.left]))

\* Node::remove whose zero/one-child cases hand back the absent child
Node_remove_swapChild(n, k) ==
    IF k < n.key
    THEN IF n.left # None
         THEN LET l == Node_remove(n.left[1], k)
              IN  IF l = Some(PanicNode) THEN Some(PanicNode)
                  ELSE Some(balance([n EXCEPT !.left = l]))
         ELSE Some(balance(n))
    ELSE IF k > n.key
    THEN IF n.right # None
         THEN LET r == Node_remove(n.right[1], k)
              IN  IF r = Some(PanicNode) THEN Some(PanicNode)
                  ELSE Some(balance([n EXCEPT !.right = r]))
         ELSE Some(balance(n))
    ELSE IF n.left = None THEN n.left
    ELSE IF n.right = None THEN n.right
    ELSE Some(balance(remove_two_children(n)))

Node_remove(n, k) ==
    IF k < n.key
    THEN IF n.left # None
         THEN LET l == Node_remove(n.left[1], k)
              IN  IF l = Some(PanicNode) THEN Some(PanicNode)
                  ELSE Some(balance([n EXCEPT !.left = l]))
         ELSE Some(balance(n))
    ELSE IF k > n.key
    THEN IF n.right # None
         THEN LET r == Node_remove(n.right[1], k)
              IN  IF r = Some(PanicNode) THEN Some(PanicNode)
                  ELSE Some(balance([n EXCEPT !.right = r]))
         ELSE Some(balance(n))
    ELSE IF n.left = None THEN n.right
    ELSE IF n.right = None THEN n.left
    ELSE Some(balance(remove_two_children(n)))

\* Node::find yields Option<&V>: <<>> or <<value>>.
RECURSIVE Node_find(_, _)
\* Node::find descending to the wrong side
Node_find_flipped(n, k) ==
    IF k > n.key THEN (IF n.left = None THEN None ELSE Node_find(n.left[1], k))
    ELSE IF k < n.key THEN (IF n.right = None THEN None ELSE Node_find(n.right[1], k))
    ELSE Some(n.value)

Node_find(n, k) ==
    IF k < n.key THEN (IF n.left = None THEN None ELSE Node_find(n.left[1], k))
    ELSE IF k > n.key THEN (IF n.right = None THEN None ELSE Node_find(n.right[1], k))
    ELSE Some(n.value)

\* The sequence of visit(key, value) calls of Node::inorder_traversal.
RECURSIVE Node_inorder_traversal(_)
Node_inorder_traversal(n) ==
    (IF n.left # None THEN Node_inorder_traversal(n.left[1]) ELSE <<>>)
    \o <<<<n.key, n.value>>>>
    \o (IF n.right # None THEN Node_inorder_traversal(n.right[1]) ELSE <<>>)

\* ---- the calls of balance and of the rotations ----
\* the nodes balance(n) hands to rotate_left / rotate_right
RotateLeftArgs(n) ==
    LET self == update_height(n)
        bal == balance_factor(self)
    IN  IF bal > 1 /\ self.left # None
        THEN (IF balance_factor(self.left[1]) < 0 THEN {self.left[1]} ELSE {})
        ELSE IF bal < -1 /\ self.right # None
        THEN (IF balance_factor(self.right[1]) > 0
              THEN {[self EXCEPT !.right = Some(rotate_right(self.right[1]))]}
              ELSE {self})
        ELSE {}

RotateRightArgs(n) ==
    LET self == update_height(n)
        bal == balance_factor(self)
    IN  IF bal > 1 /\ self.left # None
        THEN (IF balance_factor(self.left[1]) < 0
              THEN {[self EXCEPT !.left = Some(rotate_left(self.left[1]))]}
              ELSE {self})
        ELSE IF bal < -1 /\ self.right # None
        THEN (IF balance_factor(self.right[1]) > 0 THEN {self.right[1]} ELSE {})
        ELSE {}

\* the node Node::insert at n hands to balance
insert_before_balance(n, k, v) ==
    IF k < n.key
    THEN [n EXCEPT !.left = Some(IF n.left # None THEN Node_insert(n.left[1], k, v)
                                 ELSE NewNode(k, v))]
    ELSE IF k > n.key
    THEN [n EXCEPT !.right = Some(IF n.right # None THEN Node_insert(n.right[1], k, v)
                                  ELSE NewNode(k, v))]
    ELSE [n EXCEPT !.value = v]

\* every node handed to balance while Node::insert runs at n
RECURSIVE InsertBalanceArgs(_, _, _)
InsertBalanceArgs(n, k, v) ==
    {insert_before_balance(n, k, v)} \cup
    (IF k < n.key /\ n.left # None THEN InsertBalanceArgs(n.left[1], k, v)
     ELSE IF k > n.key /\ n.right # None THEN InsertBalanceArgs(n.right[1], k, v)
     ELSE {})

\* the node Node::remove at n hands to balance (n does not hold k, or holds
\* it with both children present)
remove_before_balance(n, k) ==
    IF k < n.key
    THEN [n EXCEPT !.left = IF n.left # None THEN Node_remove(n.left[1], k) ELSE None]
    ELSE IF k > n.key
    THEN [n EXCEPT !.right = IF n.right # None THEN Node_remove(n.right[1], k) ELSE None]
    ELSE remove_two_children(n)

\* every node handed to balance while Node::remove runs at n
RECURSIVE RemoveBalanceArgs(_, _)
RemoveBalanceArgs(n, k) ==
    IF k = n.key
    THEN (IF n.left # None /\ n.right # None THEN {remove_before_balance(n, k)} ELSE {})
    ELSE {remove_before_balance(n, k)} \cup
         (IF k < n.key /\ n.left # None THEN RemoveBalanceArgs(n.left[1], k)
          ELSE IF k > n.key /\ n.right # None THEN RemoveBalanceArgs(n.right[1], k)
          ELSE {})

\* ---- AVLTree (public handle), as functions of the root ----
AVLTree_new == None

AVLTree_insert(t, k, v) ==
    IF t # None THEN Some(Node_insert(t[1], k, v)) ELSE Some(NewNode(k, v))

\* AVLTree::remove that writes the root back only when a subtree is left
AVLTree_remove_keepRoot(t, k) ==
    IF t # None
    THEN LET r == Node_remove(t[1], k)
         IN  [root |-> IF r = None THEN t ELSE r, ret |-> TRUE]
    ELSE [root |-> None, ret |-> FALSE]

\* AVLTree::remove that reports whether the key was stored
AVLTree_remove_retFound(t, k) ==
    IF t # None THEN [root |-> Node_remove(t[1], k), ret |-> Node_find(t[1], k) # None]
    ELSE [root |-> None, ret |-> FALSE]

\* [root |-> the new root, ret |-> the returned flag]
AVLTree_remove(t, k) ==
    IF t # None THEN [root |-> Node_remove(t[1], k), ret |-> TRUE]
    ELSE [root |-> None, ret |-> FALSE]

AVLTree_find(t, k) == IF t = None THEN None ELSE Node_find(t[1], k)

AVLTree_inorder_traversal(t) == IF t = None THEN <<>> ELSE Node_inorder_traversal(t[1])

\* ---- the reference map driven by the same calls: a set of <<key, value>> ----
RefInsert(m, k, v) == {p \in m : p[1] # k} \cup {<<k, v>>}

RefRemove(m, k) == {p \in m : p[1] # k}

RefKeys(m) == {p[1] : p \in m}

\* ---- state machine ----
\* root     : AVLTree.root
\* prev     : root as it was when the last call started
\* op       : the last call: its name, arguments and returned flag
\* ref      : the reference map after the same calls
\* phase    : "ins" while only inserts were made, "rem" while they were
\*            followed only by removes of keys still in ref, else "mixed"
\* loaded   : in phases "ins" and "rem", the keys inserted in phase "ins"
\* panicked : the last call hit an expect / unwrap on an absent child
\* hi, nRem : the ascending workload's largest key inserted and removes made
Init ==
    /\ root = AVLTree_new
    /\ prev = None
    /\ op = [name |-> "new", key |-> 0, value |-> 0, ret |-> FALSE]
    /\ ref = {}
    /\ phase = "ins"
    /\ loaded = {}
    /\ panicked = FALSE
    /\ hi = 0
    /\ nRem = 0

DoInsert(k, v) ==
    LET r == AVLTree_insert(root, k, v)
    IN  /\ ~panicked
        /\ panicked' = (r = Some(PanicNode))
        /\ root' = IF r = Some(PanicNode) THEN None ELSE r
        /\ prev' = root
        /\ op' = [name |-> "insert", key |-> k, value |-> v, ret |-> FALSE]
        /\ ref' = RefInsert(ref, k, v)
        /\ phase' = IF phase = "ins" THEN "ins" ELSE "mixed"
        /\ loaded' = IF phase = "ins" THEN loaded \cup {k} ELSE {}

DoRemove(k) ==
    LET r == AVLTree_remove(root, k)
    IN  /\ ~panicked
        /\ panicked' = (r.root = Some(PanicNode))
        /\ root' = IF r.root = Some(PanicNode) THEN None ELSE r.root
        /\ prev' = root
        /\ op' = [name |-> "remove", key |-> k, value |-> 0, ret |-> r.ret]
        /\ ref' = RefRemove(ref, k)
        /\ phase' = IF phase \in {"ins", "rem"} /\ k \in RefKeys(ref)
                    THEN "rem" ELSE "mixed"
        /\ loaded' = IF phase \in {"ins", "rem"} /\ k \in RefKeys(ref)
                     THEN loaded ELSE {}

Insert == \E k \in Keys, v \in Values : DoInsert(k, v) /\ UNCHANGED <<hi, nRem>>

Remove == \E k \in Keys : DoRemove(k) /\ UNCHANGED <<hi, nRem>>

Next == Insert \/ Remove

Spec == Init /\ [][Next]_vars

\* The ascending workload: keys 1, 2, 3, ... are inserted in increasing
\* order, with at most MaxAscRemoves removes of any key in between.
AscInsert == hi < AscMaxKey /\ DoInsert(hi + 1, 1) /\ hi' = hi + 1 /\ UNCHANGED nRem

AscRemove ==
    /\ nRem < MaxAscRemoves
    /\ \E k \in AscKeys : DoRemove(k)
    /\ nRem' = nRem + 1
    /\ UNCHANGED hi

NextAsc == AscInsert \/ AscRemove

SpecAsc == Init /\ [][NextAsc]_vars

\* The bulk load: keys 1, 2, 3, ... are inserted in increasing order and
\* nothing is removed.
LoadInsert ==
    /\ hi < LoadMaxKey
    /\ \E v \in Values : DoInsert(hi + 1, v)
    /\ hi' = hi + 1
    /\ UNCHANGED nRem

SpecLoad == Init /\ [][LoadInsert]_vars

\* The mixed workload: inserts of any key of MixKeys in any order, with at
\* most MaxMixRemoves removes of any key in between.
MixInsert == \E k \in MixKeys : DoInsert(k, 1) /\ UNCHANGED <<hi, nRem>>

MixRemove ==
    /\ nRem < MaxMixRemoves
    /\ \E k \in MixKeys : DoRemove(k)
    /\ nRem' = nRem + 1
    /\ UNCHANGED hi

NextMix == MixInsert \/ MixRemove

SpecMix == Init /\ [][NextMix]_vars

\* ---- observations of a tree ----
Entries(t) == LET s == AVLTree_inorder_traversal(t) IN {s[i] : i \in 1..Len(s)}

Count(t) == Len(AVLTree_inorder_traversal(t))

Stored(t, k) == AVLTree_find(t, k) # None

\* true subtree height, recomputed from the shape (not the cached field)
RECURSIVE TrueHeight(_)
TrueHeight(t) ==
    IF t = None THEN 0
    ELSE 1 + Max(TrueHeight(t[1].left), TrueHeight(t[1].right))

RECURSIVE Balanced(_)
Balanced(t) ==
    t = None \/
    LET d == TrueHeight(t[1].left) - TrueHeight(t[1].right)
    IN  d <= 1 /\ d >= -1 /\ Balanced(t[1].left) /\ Balanced(t[1].right)

RECURSIVE KeysOf(_)
KeysOf(t) ==
    IF t = None THEN {}
    ELSE KeysOf(t[1].left) \cup {t[1].key} \cup KeysOf(t[1].right)

RECURSIVE Ordered(_)
Ordered(t) ==
    t = None \/
    /\ \A x \in KeysOf(t[1].left) : x < t[1].key
    /\ \A x \in KeysOf(t[1].right) : x > t[1].key
    /\ Ordered(t[1].left)
    /\ Ordered(t[1].right)

StrictlyAscending(s) == \A i \in 1..(Len(s) - 1) : s[i][1] < s[i + 1][1]

\* N(h): the least number of nodes of a balanced tree of height h
RECURSIVE MinNodes(_)
MinNodes(h) ==
    IF h <= 0 THEN 0
    ELSE IF h = 1 THEN 1
    ELSE IF h = 2 THEN 2
    ELSE MinNodes(h - 1) + MinNodes(h - 2) + 1

\* the keys a caller may look up: every key of the workload and one on each side
Probe == 0..(MaxKey + 1)

RefFind(m, k) == IF \E p \in m : p[1] = k THEN Some((CHOOSE p \in m : p[1] = k)[2]) ELSE None

IsRoot2(t, k) == t # None /\ t[1].key = k /\ t[1].left # None /\ t[1].right # None

\* the node of t that holds key k, where the descent of Node::remove stops
RECURSIVE NodeAt(_, _)
NodeAt(t, k) ==
    IF t = None THEN None
    ELSE IF k < t[1].key THEN NodeAt(t[1].left, k)
    ELSE IF k > t[1].key THEN NodeAt(t[1].right, k)
    ELSE t

HasTwoChildren(t) == t # None /\ t[1].left # None /\ t[1].right # None

\* every node's cached height is the true height of its subtree
RECURSIVE HeightCached(_)
HeightCached(t) ==
    t = None \/
    /\ t[1].height = 1 + Max(TrueHeight(t[1].left), TrueHeight(t[1].right))
    /\ HeightCached(t[1].left)
    /\ HeightCached(t[1].right)

\* the nodes handed to balance by the last call
BalanceArgs ==
    IF prev = None THEN {}
    ELSE IF op.name = "insert" THEN InsertBalanceArgs(prev[1], op.key, op.value)
    ELSE IF op.name = "remove" THEN RemoveBalanceArgs(prev[1], op.key)
    ELSE {}

\* ---- claims ----

\* C1: remove(k) of a stored key k lowers the number of entries visited by
\* inorder_traversal by exactly one and keeps every other stored pair.
C1_RemoveDropsOnlyTheKey ==
    (op.name = "remove" /\ Stored(prev, op.key)) =>
        /\ Count(root) = Count(prev) - 1
        /\ \A p \in Entries(prev) : p[1] # op.key => p \in Entries(root)

\* C2: remove(key) returns true if and only if the key was stored in the
\* tree immediately before the call.
C2_RemoveReturnsWhetherStored ==
    op.name = "remove" => (op.ret <=> Stored(prev, op.key))

\* C3: after every insert and remove, every node has true subtree heights
\* of its children differing by at most one.
C3_BalanceInvariant == Balanced(root)

\* C4: inorder_traversal visits keys in strictly ascending order, and at
\* every node the left subtree's keys are smaller and the right one's larger.
C4_OrderInvariant ==
    /\ StrictlyAscending(AVLTree_inorder_traversal(root))
    /\ Ordered(root)

C4_Witness ==
    /\ op.name = "remove"
    /\ IsRoot2(prev, op.key)
    /\ Count(root) >= 2
    /\ root[1].key # prev[1].key

\* C5: while only inserts were made, find agrees with the reference map on
\* every key and inorder_traversal visits exactly the map's pairs, each once,
\* in ascending key order.
C5_InsertOnlyRefinesMap ==
    phase = "ins" =>
        /\ \A k \in Probe : AVLTree_find(root, k) = RefFind(ref, k)
        /\ Entries(root) = ref
        /\ Count(root) = Cardinality(ref)
        /\ StrictlyAscending(AVLTree_inorder_traversal(root))

C5_Witness ==
    /\ phase = "ins"
    /\ Count(root) >= 3
    /\ op.name = "insert"
    /\ Stored(prev, op.key)
    /\ AVLTree_find(prev, op.key) # Some(op.value)
    /\ prev[1].key # op.key

\* C6: insert(k, v2) on a tree that stores k keeps the number of entries,
\* leaves one entry for k, makes find(k) return v2 and keeps every other entry.
C6_LastWriteWins ==
    (op.name = "insert" /\ Stored(prev, op.key)) =>
        /\ Count(root) = Count(prev)
        /\ Cardinality({i \in 1..Count(root) :
               AVLTree_inorder_traversal(root)[i][1] = op.key}) = 1
        /\ AVLTree_find(root, op.key) = Some(op.value)
        /\ {p \in Entries(root) : p[1] # op.key} = {p \in Entries(prev) : p[1] # op.key}

C6_Witness ==
    /\ op.name = "insert"
    /\ phase = "mixed"
    /\ Stored(prev, op.key)
    /\ AVLTree_find(prev, op.key) # Some(op.value)
    /\ Count(root) >= 3

\* C7: after remove(k) returns find(k) is absent and no panic was raised,
\* and an absent key stays absent until an insert of that key.
C7_RemovedKeyAbsent ==
    [][ /\ op'.name = "remove" =>
              (AVLTree_find(root', op'.key) = None /\ ~panicked')
        /\ \A k \in Probe :
              (AVLTree_find(root, k) = None /\ ~(op'.name = "insert" /\ op'.key = k))
                  => AVLTree_find(root', k) = None ]_vars

C7_Witness ==
    /\ op.name = "remove"
    /\ Stored(prev, op.key)
    /\ IsRoot2(prev, op.key)
    /\ ~Stored(root, op.key)
    /\ root # None
    /\ ~panicked

\* C8: remove(k) of a key that is not stored leaves the tree unchanged:
\* same shape, keys, values and cached heights.
C8_RemoveAbsentUnchanged ==
    (op.name = "remove" /\ ~Stored(prev, op.key)) => root = prev

\* C9: after inserting a set of keys and then removing each of them, in any
\* orders, the root is absent as in AVLTree::new().
C9_RoundTrip ==
    (phase = "rem" /\ ref = {}) => root = AVLTree_new

C9_Witness ==
    /\ phase = "rem"
    /\ ref = {}
    /\ Cardinality(loaded) >= 3
    /\ root = AVLTree_new
    /\ op.name = "remove"
    /\ prev # None

\* C10: a tree of height h holds at least N(h) entries, N(1) = 1, N(2) = 2,
\* N(h) = N(h-1) + N(h-2) + 1.
C10_HeightBound == Count(root) >= MinNodes(TrueHeight(root))

\* C11: inserting 1..n in ascending order, n <= 7, never gives a tree higher
\* than 3, and n = 7 gives the perfect tree of height 3.
C11_AscendingStaysShallow ==
    /\ hi <= 7 => TrueHeight(root) <= 3
    /\ hi = 7 =>
          /\ Count(root) = 7
          /\ TrueHeight(root) = 3
          /\ root[1].key = 4
          /\ root[1].left[1].key = 2
          /\ root[1].right[1].key = 6

C11_Witness ==
    /\ hi = 7
    /\ nRem = 0
    /\ phase = "ins"
    /\ KeysOf(root) = 1..7
    /\ TrueHeight(root) = 3

C13_TwoChildRemoval ==
    (op.name = "remove" /\ HasTwoChildren(NodeAt(prev, op.key))) =>
        LET n == NodeAt(prev, op.key)[1]
            min == find_min(n.right[1])
            m == remove_two_children(n)
        IN  /\ m.key = min.key
            /\ m.value = min.value
            /\ Entries(m.left) = Entries(n.left)
            /\ Entries(m.right) = Entries(n.right) \ {<<min.key, min.value>>}

\* C14: when the node that holds the key has no left child it is replaced by
\* its right child, when it has no right child by its left child (an absent
\* replacement is returned as absent), and the tree's entries after the
\* remove are the former ones without the key's.
C14_ZeroOneChildRemoval ==
    LET t == NodeAt(prev, op.key)
    IN  (op.name = "remove" /\ t # None /\ ~HasTwoChildren(t)) =>
            /\ Node_remove(t[1], op.key) =
                   (IF t[1].left = None THEN t[1].right ELSE t[1].left)
            /\ Entries(root) = Entries(prev) \ {<<t[1].key, t[1].value>>}
            /\ Count(root) = Count(prev) - 1
            /\ (Count(prev) = 1 => root = None)

C14_Witness ==
    LET t == NodeAt(prev, op.key)
    IN  /\ op.name = "remove"
        /\ t # None
        /\ t # prev
        /\ t[1].left = None
        /\ t[1].right # None
        /\ Count(root) = Count(prev) - 1
        /\ Count(root) >= 3

\* C15: after every insert and remove every node's cached height equals
\* 1 + max(height(left), height(right)), an absent child counting 0.
C15_HeightCache == HeightCached(root)

C15_Witness ==
    /\ op.name = "remove"
    /\ HasTwoChildren(NodeAt(prev, op.key))
    /\ prev[1].key = op.key
    /\ prev[1].height = 3
    /\ root # None
    /\ root[1].key # prev[1].key
    /\ root[1].height = 2
    /\ HeightCached(root)

\* C16: no call panics: rotate_right is only invoked on a node whose left
\* child is present, rotate_left only on one whose right child is present,
\* and balance unwraps only a present child.
C16_NoPanic ==
    /\ ~panicked
    /\ \A a \in BalanceArgs :
          /\ balance_factor(update_height(a)) > 1 => a.left # None
          /\ balance_factor(update_height(a)) < -1 => a.right # None
          /\ \A x \in RotateRightArgs(a) : x.left # None
          /\ \A x \in RotateLeftArgs(a) : x.right # None

C16_Witness ==
    /\ ~panicked
    /\ \E a \in BalanceArgs : RotateRightArgs(a) # {} /\ RotateLeftArgs(a) # {}
    /\ \E a \in BalanceArgs : RotateRightArgs(a) = {} /\ RotateLeftArgs(a) = {}
    /\ Count(root) >= 3

\* C17: rotate_right, rotate_left and balance return a subtree with the same
\* in-order sequence of (key, value) pairs; rotate_right makes the old left
\* child the root, its former right child the old root's left child and the
\* old root its right child, and rotate_left is the mirror image.
C17_RotationsPreserveInorder ==
    \A a \in BalanceArgs :
        /\ Node_inorder_traversal(balance(a)) = Node_inorder_traversal(a)
        /\ \A x \in RotateRightArgs(a) :
              LET r == rotate_right(x)
              IN  /\ Node_inorder_traversal(r) = Node_inorder_traversal(x)
                  /\ r.key = x.left[1].key /\ r.value = x.left[1].value
                  /\ r.left = x.left[1].left
                  /\ r.right # None
                  /\ r.right[1].key = x.key /\ r.right[1].value = x.value
                  /\ r.right[1].left = x.left[1].right
                  /\ r.right[1].right = x.right
        /\ \A x \in RotateLeftArgs(a) :
              LET r == rotate_left(x)
              IN  /\ Node_inorder_traversal(r) = Node_inorder_traversal(x)
                  /\ r.key = x.right[1].key /\ r.value = x.right[1].value
                  /\ r.right = x.right[1].right
                  /\ r.left # None
                  /\ r.left[1].key = x.key /\ r.left[1].value = x.value
                  /\ r.left[1].right = x.right[1].left
                  /\ r.left[1].left = x.left

C17_Witness ==
    \E a \in BalanceArgs :
        /\ RotateRightArgs(a) # {}
        /\ \E x \in RotateLeftArgs(a) : x.right[1].left # None
        /\ balance(a).key # a.key
        /\ Node_inorder_traversal(balance(a)) = Node_inorder_traversal(a)

\* C18: every (key, value) pair that find or inorder_traversal reports is in
\* the reference map driven by the same calls, with the same value.
C18_NoPhantomOrStale ==
    /\ Entries(root) \subseteq ref
    /\ \A k \in Probe :
          AVLTree_find(root, k) # None => AVLTree_find(root, k) = RefFind(ref, k)

C18_Witness ==
    /\ phase = "mixed"
    /\ op.name = "remove"
    /\ HasTwoChildren(NodeAt(prev, op.key))
    /\ root # None
    /\ \E p \in Entries(prev) : p[2] # root[1].value
    /\ Entries(root) \subseteq ref
    /\ Entries(root) # ref

====
